---- MODULE Spec2Model ----
(***************************************************************************)
(* A model of vimview.py, the gdb plugin that keeps a remote vim server    *)
(* showing the debugger's current source location.                         *)
(*                                                                         *)
(* Python values are encoded as follows:                                   *)
(*   None          the string "None" (never a member of the string sets    *)
(*                 used for names, paths or hooks);                        *)
(*   True / False  the strings "True" / "False" where the source allows    *)
(*                 None as a third value (PARAM_AUTO_BOOLEAN, useTabs);    *)
(*   a line number an integer, NoLine standing for None;                   *)
(*   text that the code scans (rstrip) a sequence of one-character strings.*)
(***************************************************************************)
EXTENDS Integers, Sequences, FiniteSets, TLC

VARIABLES
    vimView,        \* the global VimView object (its fields)
    environ,        \* os.environ['VIMSERVER'], or None when the key is absent
    files,          \* the paths for which os.path.isfile is true
    frame,          \* what gdb.selected_frame().find_sal() yields
    onStop,         \* the ParamVimViewOnStop instance: value, isHooked
    onPrompt,       \* the ParamVimViewOnPrompt instance: value, prevHook
    stopCallbacks,  \* how many times eventStop is connected to gdb.events.stop
    prompt_hook,    \* gdb.prompt_hook
    last,           \* the latest operation: its inputs and what it did
    promptRun       \* launches made by prompt() since the frame last moved
                    \* or anything but prompt() last asked for a file

vars == <<vimView, environ, files, frame, onStop, onPrompt, stopCallbacks,
          prompt_hook, last, promptRun>>

--------------------------------------------------------------------------
(* Bounds and domains *)

MaxLine == 2
MaxRun == 2
MaxStale == 2

None == "None"
NoLine == -1

Lines == 0..MaxLine
Paths == {"/src/main.c", "/does/not/exist"}
ServerNames == {"", "vimsrv"}
BinaryNames == {"", "gvim"}
OtherHooks == {"otherHook"}
PromptFn == "prompt"
\* the prompt function defined by an earlier load of the script
StalePrompt == "prompt of an earlier load"

Truthy(v) == v # None /\ v # "" /\ v # "False"

--------------------------------------------------------------------------
(* str(int) *)

Digit(d) ==
    CASE d = 0 -> "0" [] d = 1 -> "1" [] d = 2 -> "2" [] d = 3 -> "3"
      [] d = 4 -> "4" [] d = 5 -> "5" [] d = 6 -> "6" [] d = 7 -> "7"
      [] d = 8 -> "8" [] d = 9 -> "9"

RECURSIVE StrNat(_)
StrNat(n) == IF n < 10 THEN Digit(n) ELSE StrNat(n \div 10) \o Digit(n % 10)

str(n) == IF n < 0 THEN "-" \o StrNat(-n) ELSE StrNat(n)

--------------------------------------------------------------------------
(* Helper functions *)

\* testing the variable's value for truth instead of the key's presence
_isVimServerNameVariableSet_nonEmpty == environ # None /\ environ # ""

_isVimServerNameVariableSet == environ # None

--------------------------------------------------------------------------
(* class VimView.  Each method is a function of the object (self) and its  *)
(* arguments, yielding the object afterwards and what the call did.        *)

\* setCommand testing its arguments against None instead of for truth
setCommand_acceptsEmpty(self, serverName, binaryName, useTabs) ==
    LET s1 == IF serverName # None THEN [self EXCEPT !.serverName = serverName]
              ELSE self
        s2 == IF binaryName # None THEN [s1 EXCEPT !.binaryName = binaryName]
              ELSE s1
        s3 == IF useTabs = "True" THEN [s2 EXCEPT !.cmdFileArg = "--remote-tab"]
              ELSE IF useTabs = "False" THEN [s2 EXCEPT !.cmdFileArg = "--remote"]
              ELSE s2
    IN  [s3 EXCEPT !.cmd = <<s3.binaryName, "+q", "--servername", s3.serverName>>]

\* setCommand building the command prefix from the names it had before
setCommand_staleCmd(self, serverName, binaryName, useTabs) ==
    LET s1 == IF Truthy(serverName) THEN [self EXCEPT !.serverName = serverName]
              ELSE self
        s2 == IF Truthy(binaryName) THEN [s1 EXCEPT !.binaryName = binaryName]
              ELSE s1
        s3 == IF useTabs = "True" THEN [s2 EXCEPT !.cmdFileArg = "--remote-tab"]
              ELSE IF useTabs = "False" THEN [s2 EXCEPT !.cmdFileArg = "--remote"]
              ELSE s2
    IN  [s3 EXCEPT !.cmd = IF self.cmd = None
                           THEN <<s3.binaryName, "+q", "--servername", s3.serverName>>
                           ELSE self.cmd]

setCommand(self, serverName, binaryName, useTabs) ==
    LET s1 == IF Truthy(serverName) THEN [self EXCEPT !.serverName = serverName]
              ELSE self
        s2 == IF Truthy(binaryName) THEN [s1 EXCEPT !.binaryName = binaryName]
              ELSE s1
        s3 == IF useTabs = "True" THEN [s2 EXCEPT !.cmdFileArg = "--remote-tab"]
              ELSE IF useTabs = "False" THEN [s2 EXCEPT !.cmdFileArg = "--remote"]
              ELSE s2
    IN  [s3 EXCEPT !.cmd = <<s3.binaryName, "+q", "--servername", s3.serverName>>]

VimViewInit ==
    setCommand([serverName |-> None, binaryName |-> None, cmd |-> None,
                cmdFileArg |-> None, debug |-> FALSE,
                curFile |-> None, curLine |-> NoLine],
               "gdb", "vim", "False")

isfile(fileName) == fileName \in files

\* gdb.write output is a sequence of writes, each the sequence of the pieces
\* of text concatenated into it.
dbgPrint(self, info, msg) ==
    IF self.debug /\ msg # <<>>
    THEN <<(<<"vimview ", info, ": ">> \o msg \o <<"\n">>)>>
    ELSE <<>>

Whitespace == {" ", "\t", "\n", "\r"}

RECURSIVE rstrip(_)
rstrip(text) ==
    IF text # <<>> /\ text[Len(text)] \in Whitespace
    THEN rstrip(SubSeq(text, 1, Len(text) - 1))
    ELSE text

\* proc is what running the external program does: proc.spawn is "ok", or
\* "OSError" when subprocess.Popen cannot start it; proc.out and proc.err are
\* the bytes it writes; proc.decode is "ok", or "UnicodeDecodeError" when
\* those bytes are not UTF-8.
execCmd(self, command, proc) ==
    LET cmd == self.cmd \o <<"--remote-expr", command>>
        w0 == dbgPrint(self, "cmd", <<"str(cmd)">>)
    IN  IF proc.spawn # "ok"
        THEN [out |-> <<>>, err |-> <<>>, launches |-> <<cmd>>, writes |-> w0,
              raised |-> proc.spawn]
        ELSE IF (proc.out # <<>> \/ proc.err # <<>>) /\ proc.decode # "ok"
        THEN [out |-> <<>>, err |-> <<>>, launches |-> <<cmd>>,
              writes |-> w0,
              raised |-> proc.decode]
        ELSE [out |-> proc.out, err |-> proc.err, launches |-> <<cmd>>,
              writes |-> w0 \o dbgPrint(self, "out", proc.out)
                           \o dbgPrint(self, "err", proc.err),
              raised |-> None]

\* the argument list with the line directive after the file name
openCmd_lineAfterPath(self, fileName, lineNo) ==
    IF lineNo # NoLine /\ lineNo # 0
    THEN self.cmd \o <<self.cmdFileArg, fileName, "+" \o str(lineNo)>>
    ELSE self.cmd \o <<self.cmdFileArg, fileName>>

\* the argument list openFile builds (lines 112-115)
openCmd(self, fileName, lineNo) ==
    IF lineNo # NoLine /\ lineNo # 0
    THEN self.cmd \o <<self.cmdFileArg, "+" \o str(lineNo), fileName>>
    ELSE self.cmd \o <<self.cmdFileArg, fileName>>

\* openFile launching without recording the location
openFileLaunch_noRecord(self, fileName, lineNo, spawn) ==
    [self |-> self,
     ret |-> IF spawn = "ok" THEN "True" ELSE None,
     launches |-> <<openCmd(self, fileName, lineNo)>>,
     writes |-> dbgPrint(self, "cmd", <<"str(cmd)">>),
     raised |-> IF spawn = "ok" THEN None ELSE spawn]

\* what openFile does once its guards are passed (lines 117-124)
openFileLaunch(self, fileName, lineNo, spawn) ==
    [self |-> [self EXCEPT !.curFile = fileName, !.curLine = lineNo],
     ret |-> IF spawn = "ok" THEN "True" ELSE None,
     launches |-> <<openCmd(self, fileName, lineNo)>>,
     writes |-> dbgPrint(self, "cmd", <<"str(cmd)">>),
     raised |-> IF spawn = "ok" THEN None ELSE spawn]

\* what openFile does when a guard returns False (lines 107, 110)
openFileSkip(self) ==
    [self |-> self, ret |-> "False", launches |-> <<>>, writes |-> <<>>,
     raised |-> None]

\* openFile with the line left out of the dedup key
openFile_keyWithoutLine(self, fileName, lineNo, existingOnly, reopen, spawn) ==
    IF ~reopen /\ fileName = self.curFile
    THEN openFileSkip(self)
    ELSE IF existingOnly /\ ~isfile(fileName)
    THEN openFileSkip(self)
    ELSE openFileLaunch(self, fileName, lineNo, spawn)

\* openFile with the dedup guard applied to forced calls too
openFile_dedupWhenForced(self, fileName, lineNo, existingOnly, reopen, spawn) ==
    IF fileName = self.curFile /\ lineNo = self.curLine
    THEN openFileSkip(self)
    ELSE IF existingOnly /\ ~isfile(fileName)
    THEN openFileSkip(self)
    ELSE openFileLaunch(self, fileName, lineNo, spawn)

\* openFile recording the location before it checks that the file exists
openFile_recordBeforeGuard(self, fileName, lineNo, existingOnly, reopen, spawn) ==
    IF ~reopen /\ (fileName = self.curFile /\ lineNo = self.curLine)
    THEN openFileSkip(self)
    ELSE IF existingOnly /\ ~isfile(fileName)
    THEN [openFileSkip(self) EXCEPT
             !.self = [self EXCEPT !.curFile = fileName, !.curLine = lineNo]]
    ELSE openFileLaunch(self, fileName, lineNo, spawn)

\* spawn is the outcome of subprocess.Popen: "ok", or "OSError" when the
\* executable cannot be started (the exception leaves openFile).
openFile(self, fileName, lineNo, existingOnly, reopen, spawn) ==
    IF ~reopen /\ (fileName = self.curFile /\ lineNo = self.curLine)
    THEN openFileSkip(self)
    ELSE IF existingOnly /\ ~isfile(fileName)
    THEN openFileSkip(self)
    ELSE openFileLaunch(self, fileName, lineNo, spawn)

\* openCurrentFile reporting an invalid frame with the text of the
\* 'no frame' case
openCurrentFile_sameDiagnostic(self, sal, showError, existingOnly, reopen, spawn) ==
    LET quiet(msg) == [self |-> self, ret |-> None, launches |-> <<>>,
                       writes |-> IF showError THEN <<(<<msg>>)>> ELSE <<>>,
                       raised |-> None]
    IN  CASE sal.kind = "invalid" -> quiet("no frame is selected\n")
          [] sal.kind = "noframe" -> quiet("no frame is selected\n")
          [] sal.kind = "nosymtab" -> quiet("can't read symbol for current frame\n")
          [] sal.kind = "nofilename" -> quiet("cant read filename for current frame\n")
          [] sal.kind = "ok" ->
               [openFile(self, sal.file, sal.line, existingOnly, reopen, spawn)
                   EXCEPT !.ret = None]

\* sal is the answer of gdb.selected_frame().find_sal(): sal.kind is
\* "noframe" (gdb.error), "invalid" (is_valid() false), "nosymtab",
\* "nofilename", or "ok" with the symtab's fullname() and the line.
openCurrentFile(self, sal, showError, existingOnly, reopen, spawn) ==
    LET quiet(msg) == [self |-> self, ret |-> None, launches |-> <<>>,
                       writes |-> IF showError THEN <<(<<msg>>)>> ELSE <<>>,
                       raised |-> None]
    IN  CASE sal.kind = "invalid" -> quiet("this is not a valid frame\n")
          [] sal.kind = "noframe" -> quiet("no frame is selected\n")
          [] sal.kind = "nosymtab" -> quiet("can't read symbol for current frame\n")
          [] sal.kind = "nofilename" -> quiet("cant read filename for current frame\n")
          [] sal.kind = "ok" ->
               [openFile(self, sal.file, sal.line, existingOnly, reopen, spawn)
                   EXCEPT !.ret = None]

--------------------------------------------------------------------------
(* CmdBreak.putBreak.  bp is the outcome of gdb.Breakpoint: "ok", or        *)
(* "RuntimeError" when gdb refuses the location.                           *)

\* putBreak creating the breakpoint without looking at the error text
putBreak_ignoresErr(self, proc, bp) ==
    LET r == execCmd(self, "expand(\"%:p\") . \":\" . line(\".\")", proc)
        fileName == rstrip(r.out)
    IN  IF r.raised # None
        THEN [created |-> <<>>, launches |-> r.launches, writes |-> r.writes,
              raised |-> r.raised, err |-> r.err]
        ELSE IF bp = "ok"
        THEN [created |-> <<fileName>>, launches |-> r.launches,
              writes |-> r.writes, raised |-> None, err |-> r.err]
        ELSE [created |-> <<>>, launches |-> r.launches,
              writes |-> r.writes \o <<(<<"str(ex)", "\n">>)>>,
              raised |-> None, err |-> r.err]

putBreak(self, proc, bp) ==
    LET r == execCmd(self, "expand(\"%:p\") . \":\" . line(\".\")", proc)
        fileName == rstrip(r.out)
    IN  IF r.raised # None
        THEN [created |-> <<>>, launches |-> r.launches, writes |-> r.writes,
              raised |-> r.raised, err |-> r.err]
        ELSE IF r.err = <<>>
        THEN IF bp = "ok"
             THEN [created |-> <<fileName>>, launches |-> r.launches,
                   writes |-> r.writes, raised |-> None, err |-> r.err]
             ELSE [created |-> <<>>, launches |-> r.launches,
                   writes |-> r.writes \o <<(<<"str(ex)", "\n">>)>>,
                   raised |-> None, err |-> r.err]
        ELSE [created |-> <<>>, launches |-> r.launches,
              writes |-> r.writes \o <<(<<"error: ">> \o r.err)>>,
              raised |-> None, err |-> r.err]

--------------------------------------------------------------------------
(* CmdBreak.showBreak.  A breakpoint is [number, hasLocation, location]:   *)
(* location is the text of br.location, hasLocation is false when          *)
(* br.location is None (a watchpoint).                                     *)

RECURSIVE join(_)
\* the file name a text spells
join(text) == IF text = <<>> THEN "" ELSE Head(text) \o join(Tail(text))

\* the position of the last sep in text, 0 if there is none
RECURSIVE rfind(_, _)
rfind(text, sep) ==
    IF text = <<>> THEN 0
    ELSE IF text[Len(text)] = sep THEN Len(text)
    ELSE rfind(SubSeq(text, 1, Len(text) - 1), sep)

\* text.rsplit(sep, 1)
rsplit(text, sep) ==
    LET i == rfind(text, sep)
    IN  IF i = 0 THEN <<text>>
        ELSE <<SubSeq(text, 1, i - 1), SubSeq(text, i + 1, Len(text))>>

DigitValue(c) ==
    CASE c = "0" -> 0 [] c = "1" -> 1 [] c = "2" -> 2 [] c = "3" -> 3
      [] c = "4" -> 4 [] c = "5" -> 5 [] c = "6" -> 6 [] c = "7" -> 7
      [] c = "8" -> 8 [] c = "9" -> 9

Digits == {"0", "1", "2", "3", "4", "5", "6", "7", "8", "9"}

RECURSIVE NatOf(_)
NatOf(text) ==
    IF text = <<>> THEN 0
    ELSE 10 * NatOf(SubSeq(text, 1, Len(text) - 1)) + DigitValue(text[Len(text)])

\* int(text): an optional sign and decimal digits; anything else is a
\* ValueError
int(text) ==
    LET signed == text # <<>> /\ text[1] \in {"+", "-"}
        body == IF signed THEN Tail(text) ELSE text
    IN  IF body # <<>> /\ \A i \in 1..Len(body) : body[i] \in Digits
        THEN [raised |-> None,
              value |-> IF signed /\ text[1] = "-" THEN -NatOf(body)
                        ELSE NatOf(body)]
        ELSE [raised |-> "ValueError", value |-> 0]

\* the (fileName, lineNo) showBreak takes from a location text (lines 199-204)
parseLocation(location) ==
    LET parts == rsplit(location, ":")
    IN  IF Len(parts) = 2 /\ int(parts[2]).raised = None
        THEN [fileName |-> join(parts[1]), lineNo |-> int(parts[2]).value]
        ELSE [fileName |-> join(location), lineNo |-> NoLine]

\* CmdBreak.showBreak(no)
showBreak(self, no, breakpoints, spawn) ==
    LET found == {b \in breakpoints : b.number = no}
    IN  IF found = {}
        THEN [self |-> self, requested |-> FALSE, fileName |-> None,
              lineNo |-> NoLine, launches |-> <<>>,
              writes |-> <<(<<"no breakpoint number ", str(no), "\n">>)>>,
              raised |-> None]
        ELSE LET br == CHOOSE b \in found : TRUE
             IN  IF ~br.hasLocation
                 THEN [self |-> self, requested |-> FALSE, fileName |-> None,
                       lineNo |-> NoLine, launches |-> <<>>, writes |-> <<>>,
                       raised |-> "AttributeError"]
                 ELSE LET loc == parseLocation(br.location)
                          r == openFile(self, loc.fileName, loc.lineNo, TRUE,
                                        TRUE, spawn)
                      IN  [self |-> r.self, requested |-> TRUE,
                           fileName |-> loc.fileName, lineNo |-> loc.lineNo,
                           launches |-> r.launches,
                           writes |-> r.writes \o
                               (IF r.raised = None /\ r.ret # "True"
                                THEN <<(<<"cannot open file \"", loc.fileName,
                                          "\"\n">>)>>
                                ELSE <<>>),
                           raised |-> r.raised]

--------------------------------------------------------------------------
(* The follow parameters.  Each get_set_string is a function of the        *)
(* parameter object and of the gdb registration it manages.                *)

\* get_set_string connecting eventStop without looking at isHooked
onStop_get_set_string_unguarded(self, connected) ==
    LET value == IF self.value = None
                 THEN (IF _isVimServerNameVariableSet THEN "True" ELSE "False")
                 ELSE self.value
    IN  IF value = "True"
        THEN [self |-> [value |-> value, isHooked |-> TRUE],
              connected |-> connected + 1]
        ELSE IF self.isHooked
             THEN [self |-> [value |-> value, isHooked |-> FALSE],
                   connected |-> IF connected > 0 THEN connected - 1 ELSE 0]
             ELSE [self |-> [self EXCEPT !.value = value], connected |-> connected]

\* get_set_string acting on the resolved value without storing it
onStop_get_set_string_keepsAuto(self, connected) ==
    LET value == IF self.value = None
                 THEN (IF _isVimServerNameVariableSet THEN "True" ELSE "False")
                 ELSE self.value
    IN  IF value = "True"
        THEN IF ~self.isHooked
             THEN [self |-> [self EXCEPT !.isHooked = TRUE],
                   connected |-> connected + 1]
             ELSE [self |-> self, connected |-> connected]
        ELSE IF self.isHooked
             THEN [self |-> [self EXCEPT !.isHooked = FALSE],
                   connected |-> IF connected > 0 THEN connected - 1 ELSE 0]
             ELSE [self |-> self, connected |-> connected]

\* ParamVimViewOnStop.get_set_string; connected is the number of times
\* eventStop is connected to gdb.events.stop.
onStop_get_set_string(self, connected) ==
    LET value == IF self.value = None
                 THEN (IF _isVimServerNameVariableSet THEN "True" ELSE "False")
                 ELSE self.value
    IN  IF value = "True"
        THEN IF ~self.isHooked
             THEN [self |-> [value |-> value, isHooked |-> TRUE],
                   connected |-> connected + 1]
             ELSE [self |-> [self EXCEPT !.value = value], connected |-> connected]
        ELSE IF self.isHooked
             THEN [self |-> [value |-> value, isHooked |-> FALSE],
                   connected |-> IF connected > 0 THEN connected - 1 ELSE 0]
             ELSE [self |-> [self EXCEPT !.value = value], connected |-> connected]

\* ParamVimViewOnPrompt.get_set_string; hook is gdb.prompt_hook.
onPrompt_get_set_string(self, hook) ==
    LET value == IF self.value = None
                 THEN (IF _isVimServerNameVariableSet THEN "True" ELSE "False")
                 ELSE self.value
    IN  IF value = "True"
        THEN IF hook # PromptFn
             THEN [self |-> [value |-> value, prevHook |-> hook], hook |-> PromptFn]
             ELSE [self |-> [self EXCEPT !.value = value], hook |-> hook]
        ELSE [self |-> [self EXCEPT !.value = value], hook |-> self.prevHook]

--------------------------------------------------------------------------
(* The record of the latest operation; again says that an openFile call   *)
(* or a policy update repeats, with the same arguments, the operation made *)
(* immediately before it.  afterStop says that the operation is a stop     *)
(* event with the frame at an existing file, or one of the prompt events   *)
(* that follow such a stop event immediately, and stopRun counts the       *)
(* launches from that stop event on.                                       *)

NoOp ==
    [op |-> "load", fileName |-> None, lineNo |-> NoLine, existingOnly |-> FALSE,
     reopen |-> FALSE, value |-> None, ret |-> None, launches |-> <<>>,
     writes |-> <<>>, raised |-> None, created |-> <<>>, err |-> <<>>,
     again |-> FALSE, pc |-> "done", running |-> 0,
     afterStop |-> FALSE, stopRun |-> 0]

--------------------------------------------------------------------------
(* The state after the script has been loaded (the __main__ block) *)

Init ==
    /\ environ \in {None} \cup ServerNames
    /\ vimView = IF environ # None
                 THEN setCommand(VimViewInit, environ, None, None)
                 ELSE VimViewInit
    /\ files = {"/src/main.c"}
    /\ frame = [kind |-> "noframe", file |-> None, line |-> NoLine]
    /\ onStop = [value |-> "False", isHooked |-> FALSE]
    /\ prompt_hook \in {None} \cup OtherHooks
    /\ onPrompt = [value |-> "False", prevHook |-> prompt_hook]
    /\ stopCallbacks = 0
    /\ last = [NoOp EXCEPT !.writes =
                 IF environ # None
                 THEN <<(<<"Vim server name: \"", environ, "\"\n">>)>>
                 ELSE <<>>]
    /\ promptRun = 0

--------------------------------------------------------------------------
(* Operations on the session *)

Spawns == {"ok", "OSError"}

\* A call of vimView.openFile
OpenFile(fileName, lineNo, existingOnly, reopen, spawn) ==
    LET r == openFile(vimView, fileName, lineNo, existingOnly, reopen, spawn)
    IN  /\ vimView' = r.self
        /\ last' = [NoOp EXCEPT !.op = "openFile", !.fileName = fileName,
                      !.lineNo = lineNo, !.existingOnly = existingOnly,
                      !.reopen = reopen, !.ret = r.ret,
                      !.launches = r.launches, !.writes = r.writes,
                      !.raised = r.raised,
                      !.again = /\ last.op = "openFile"
                                /\ last.fileName = fileName
                                /\ last.lineNo = lineNo
                                /\ last.existingOnly = existingOnly
                                /\ last.reopen = reopen]
        /\ promptRun' = 0
        /\ UNCHANGED <<environ, files, frame, onStop, onPrompt, stopCallbacks,
                       prompt_hook>>

\* set vimview-server: ParamServerName.get_set_string
SetServerName(value) ==
    /\ vimView' = setCommand(vimView, value, None, None)
    /\ last' = [NoOp EXCEPT !.op = "vimview-server", !.value = value]
    /\ promptRun' = promptRun
    /\ UNCHANGED <<environ, files, frame, onStop, onPrompt, stopCallbacks,
                   prompt_hook>>

\* set vimview-command: ParamBinaryName.get_set_string
SetBinaryName(value) ==
    /\ vimView' = setCommand(vimView, None, value, None)
    /\ last' = [NoOp EXCEPT !.op = "vimview-command", !.value = value]
    /\ promptRun' = promptRun
    /\ UNCHANGED <<environ, files, frame, onStop, onPrompt, stopCallbacks,
                   prompt_hook>>

\* set vimview-tabs: ParamUseTabs.get_set_string
SetUseTabs(value) ==
    /\ vimView' = setCommand(vimView, None, None, value)
    /\ last' = [NoOp EXCEPT !.op = "vimview-tabs", !.value = value]
    /\ promptRun' = promptRun
    /\ UNCHANGED <<environ, files, frame, onStop, onPrompt, stopCallbacks,
                   prompt_hook>>

Outs == {<<>>, <<"a", ":", "7", "\n">>}
Errs == {<<>>, <<"E", "2", "4", "7", "\n">>}
Procs == [spawn : Spawns, out : Outs, err : Errs,
          decode : {"ok", "UnicodeDecodeError"}]

\* vbreak without an argument: CmdBreak.invoke -> putBreak
PutBreak(proc, bp) ==
    LET r == putBreak(vimView, proc, bp)
    IN  /\ last' = [NoOp EXCEPT !.op = "putBreak", !.launches = r.launches,
                      !.writes = r.writes, !.raised = r.raised,
                      !.created = r.created, !.err = r.err]
        /\ promptRun' = promptRun
        /\ UNCHANGED <<vimView, environ, files, frame, onStop, onPrompt,
                       stopCallbacks, prompt_hook>>


\* the breakpoints gdb holds: a file and a line, a file alone, a file and a
\* function, a watchpoint, a function
GdbBreakpoints ==
    {[number |-> 1, hasLocation |-> TRUE,
      location |-> <<"/", "s", "r", "c", "/", "m", "a", "i", "n", ".", "c",
                     ":", "2">>],
     [number |-> 2, hasLocation |-> TRUE,
      location |-> <<"/", "s", "r", "c", "/", "m", "a", "i", "n", ".", "c">>],
     [number |-> 3, hasLocation |-> TRUE,
      location |-> <<"/", "s", "r", "c", "/", "m", "a", "i", "n", ".", "c",
                     ":", "f">>],
     [number |-> 4, hasLocation |-> FALSE, location |-> <<>>],
     [number |-> 5, hasLocation |-> TRUE, location |-> <<"m", "a", "i", "n">>]}

\* the numbers given to vbreak: those of the breakpoints and one more
BreakNumbers == 1..(Cardinality(GdbBreakpoints) + 1)

\* vbreak with a number: CmdBreak.invoke -> showBreak
ShowBreak(no, spawn) ==
    LET r == showBreak(vimView, no, GdbBreakpoints, spawn)
    IN  /\ vimView' = r.self
        /\ last' = [NoOp EXCEPT !.op = "showBreak", !.value = str(no),
                      !.fileName = r.fileName, !.lineNo = r.lineNo,
                      !.existingOnly = r.requested, !.reopen = r.requested,
                      !.launches = r.launches, !.writes = r.writes,
                      !.raised = r.raised]
        /\ promptRun' = 0
        /\ UNCHANGED <<environ, files, frame, onStop, onPrompt, stopCallbacks,
                       prompt_hook>>
--------------------------------------------------------------------------
(* Operations on the follow policies *)

\* set vimview-onstop: gdb stores the value, then calls get_set_string
SetOnStop(value) ==
    LET r == onStop_get_set_string([onStop EXCEPT !.value = value], stopCallbacks)
    IN  /\ onStop' = r.self
        /\ stopCallbacks' = r.connected
        /\ last' = [NoOp EXCEPT !.op = "vimview-onstop", !.value = value,
                      !.again = (last.op = "vimview-onstop" /\ last.value = value)]
        /\ promptRun' = promptRun
        /\ UNCHANGED <<vimView, environ, files, frame, onPrompt, prompt_hook>>

\* set vimview-onprompt: gdb stores the value, then calls get_set_string
SetOnPrompt(value) ==
    LET r == onPrompt_get_set_string([onPrompt EXCEPT !.value = value], prompt_hook)
    IN  /\ onPrompt' = r.self
        /\ prompt_hook' = r.hook
        /\ last' = [NoOp EXCEPT !.op = "vimview-onprompt", !.value = value,
                      !.again = (last.op = "vimview-onprompt" /\ last.value = value)]
        /\ promptRun' = promptRun
        /\ UNCHANGED <<vimView, environ, files, frame, onStop, stopCallbacks>>

\* eventStop with the dedup guard left on
eventStop_deduped(self, sal, spawn) ==
    openCurrentFile(self, sal, FALSE, TRUE, FALSE, spawn)

\* def eventStop(ev)
eventStop(self, sal, spawn) ==
    openCurrentFile(self, sal, FALSE, TRUE, TRUE, spawn)

\* gdb.events.stop fires: every connected eventStop runs in turn
RECURSIVE notifyStop(_, _, _)
notifyStop(n, self, spawn) ==
    IF n = 0
    THEN [self |-> self, launches |-> <<>>, writes |-> <<>>, raised |-> None]
    ELSE LET r == eventStop(self, frame, spawn)
             rest == notifyStop(n - 1, r.self, spawn)
         IN  [self |-> rest.self, launches |-> r.launches \o rest.launches,
              writes |-> r.writes \o rest.writes,
              raised |-> IF r.raised # None THEN r.raised ELSE rest.raised]

StopEvent(spawn) ==
    LET r == notifyStop(stopCallbacks, vimView, spawn)
    IN  /\ stopCallbacks > 0
        /\ vimView' = r.self
        /\ last' = [NoOp EXCEPT !.op = "eventStop", !.launches = r.launches,
                      !.writes = r.writes, !.raised = r.raised,
                      !.afterStop = (frame.kind = "ok" /\ isfile(frame.file)),
                      !.stopRun = IF Len(r.launches) > MaxRun THEN MaxRun
                                  ELSE Len(r.launches)]
        /\ promptRun' = 0
        /\ UNCHANGED <<environ, files, frame, onStop, onPrompt, stopCallbacks,
                       prompt_hook>>

\* prompt forcing the reopen as eventStop does
prompt_forced(self, sal, spawn) ==
    openCurrentFile(self, sal, FALSE, TRUE, TRUE, spawn)

\* def prompt(pr)
prompt(self, sal, spawn) ==
    openCurrentFile(self, sal, FALSE, TRUE, FALSE, spawn)

\* gdb is about to show its prompt and calls gdb.prompt_hook, here prompt
\* (of this load of the script or of an earlier one: the same code)
PromptEvent(spawn) ==
    LET r == prompt(vimView, frame, spawn)
    IN  /\ prompt_hook \in {PromptFn, StalePrompt}
        /\ vimView' = r.self
        /\ last' = [NoOp EXCEPT !.op = "prompt", !.launches = r.launches,
                      !.writes = r.writes, !.raised = r.raised,
                      !.afterStop = last.afterStop,
                      !.stopRun = IF last.stopRun + Len(r.launches) > MaxRun
                                  THEN MaxRun
                                  ELSE last.stopRun + Len(r.launches)]
        /\ promptRun' = IF promptRun + Len(r.launches) > MaxRun THEN MaxRun
                        ELSE promptRun + Len(r.launches)
        /\ UNCHANGED <<environ, files, frame, onStop, onPrompt, stopCallbacks,
                       prompt_hook>>

\* the vim / v command: CmdView.invoke
CmdView(spawn) ==
    LET r == openCurrentFile(vimView, frame, TRUE, TRUE, TRUE, spawn)
    IN  /\ vimView' = r.self
        /\ last' = [NoOp EXCEPT !.op = "CmdView", !.launches = r.launches,
                      !.writes = r.writes, !.raised = r.raised]
        /\ promptRun' = 0
        /\ UNCHANGED <<environ, files, frame, onStop, onPrompt, stopCallbacks,
                       prompt_hook>>

--------------------------------------------------------------------------
(* The script is loaded again in the same gdb session (source vimview.py). *)
(* vimView is kept (line 361); the classes and the functions eventStop and *)
(* prompt are defined anew and new parameter objects replace the old ones, *)
(* while gdb.events.stop and gdb.prompt_hook keep what they hold.  The     *)
(* callbacks of earlier loads run the same code on the same vimView, so    *)
(* stopCallbacks counts them together with those of this load.             *)

Reload ==
    /\ stopCallbacks < MaxStale
    /\ vimView' = IF environ # None
                  THEN setCommand(vimView, environ, None, None)
                  ELSE vimView
    /\ onStop' = [value |-> "False", isHooked |-> FALSE]
    /\ prompt_hook' = IF prompt_hook = PromptFn THEN StalePrompt
                      ELSE prompt_hook
    /\ onPrompt' = [value |-> "False", prevHook |-> prompt_hook']
    /\ last' = [NoOp EXCEPT !.op = "reload", !.writes =
                  IF environ # None
                  THEN <<(<<"Vim server name: \"", environ, "\"\n">>)>>
                  ELSE <<>>]
    /\ promptRun' = 0
    /\ UNCHANGED <<environ, files, frame, stopCallbacks>>

--------------------------------------------------------------------------
(* What happens around the plugin *)

Sals ==
    {[kind |-> k, file |-> None, line |-> NoLine] :
        k \in {"noframe", "invalid", "nosymtab", "nofilename"}}
    \cup {[kind |-> "ok", file |-> f, line |-> l] : f \in Paths, l \in Lines}

\* the inferior runs, or the user selects another frame
FrameChange(sal) ==
    /\ sal # frame
    /\ frame' = sal
    /\ last' = [NoOp EXCEPT !.op = "frame"]
    /\ promptRun' = 0
    /\ UNCHANGED <<vimView, environ, files, onStop, onPrompt, stopCallbacks,
                   prompt_hook>>

\* a file is created or removed
FileChange(path) ==
    /\ files' = IF path \in files THEN files \ {path} ELSE files \cup {path}
    /\ last' = [NoOp EXCEPT !.op = "file"]
    /\ promptRun' = promptRun
    /\ UNCHANGED <<vimView, environ, frame, onStop, onPrompt, stopCallbacks,
                   prompt_hook>>

\* VIMSERVER is set, changed or unset in the debugger's environment
EnvChange(value) ==
    /\ value # environ
    /\ environ' = value
    /\ last' = [NoOp EXCEPT !.op = "environ"]
    /\ promptRun' = promptRun
    /\ UNCHANGED <<vimView, files, frame, onStop, onPrompt, stopCallbacks,
                   prompt_hook>>

\* another script assigns gdb.prompt_hook
OtherPromptHook(hook) ==
    /\ hook # prompt_hook
    /\ prompt_hook' = hook
    /\ last' = [NoOp EXCEPT !.op = "prompt_hook"]
    /\ promptRun' = promptRun
    /\ UNCHANGED <<vimView, environ, files, frame, onStop, onPrompt,
                   stopCallbacks>>

--------------------------------------------------------------------------
(* openFile statement by statement.  last.pc is the statement the call in  *)
(* progress executes next ("done": no call in progress) and last.running   *)
(* the number of processes it has launched that have not exited.  gdb runs *)
(* one command or callback at a time, so nothing else starts before "done".*)

\* openFile recording the location after the process has been launched and
\* waited for
openFileAfter_launchFirst(pc) ==
    CASE pc = "guard" -> "popen"
      [] pc = "popen" -> "communicate"
      [] pc = "communicate" -> "record"
      [] pc = "record" -> "done"

\* the order of openFile's statements once the guards are passed: the
\* assignments of lines 119-120, Popen of line 122, communicate of line 123
openFileAfter(pc) ==
    CASE pc = "guard" -> "record"
      [] pc = "record" -> "popen"
      [] pc = "popen" -> "communicate"
      [] pc = "communicate" -> "done"

Idle == last.pc = "done"

\* the call and its guards (lines 105-110)
OpenFileCall(fileName, lineNo, existingOnly, reopen) ==
    LET skip == openFile(vimView, fileName, lineNo, existingOnly, reopen,
                         "ok").ret = "False"
    IN  /\ Idle
        /\ last' = [NoOp EXCEPT !.op = "openFile", !.fileName = fileName,
                      !.lineNo = lineNo, !.existingOnly = existingOnly,
                      !.reopen = reopen,
                      !.ret = IF skip THEN "False" ELSE None,
                      !.pc = IF skip THEN "done" ELSE openFileAfter("guard")]
        /\ promptRun' = 0
        /\ UNCHANGED <<vimView, environ, files, frame, onStop, onPrompt,
                       stopCallbacks, prompt_hook>>

StepTo(pc) ==
    [last EXCEPT !.pc = pc, !.ret = IF pc = "done" THEN "True" ELSE None]

\* self.curFile = fileName; self.curLine = lineNo (lines 119-120)
OpenFileRecord ==
    /\ last.op = "openFile" /\ last.pc = "record"
    /\ vimView' = [vimView EXCEPT !.curFile = last.fileName,
                                  !.curLine = last.lineNo]
    /\ last' = StepTo(openFileAfter("record"))
    /\ UNCHANGED <<environ, files, frame, onStop, onPrompt, stopCallbacks,
                   prompt_hook, promptRun>>

\* vim = subprocess.Popen(cmd, ...) (line 122): the process starts, or Popen
\* raises and the exception leaves openFile
OpenFilePopen(spawn) ==
    /\ last.op = "openFile" /\ last.pc = "popen"
    /\ last' = IF spawn = "ok"
               THEN [StepTo(openFileAfter("popen")) EXCEPT
                       !.launches = <<openCmd(vimView, last.fileName,
                                              last.lineNo)>>,
                       !.running = last.running + 1]
               ELSE [last EXCEPT
                       !.launches = <<openCmd(vimView, last.fileName,
                                              last.lineNo)>>,
                       !.raised = spawn, !.pc = "done"]
    /\ UNCHANGED <<vimView, environ, files, frame, onStop, onPrompt,
                   stopCallbacks, prompt_hook, promptRun>>

\* the launched vim client exits
ProcessExit ==
    /\ last.running > 0
    /\ last' = [last EXCEPT !.running = last.running - 1]
    /\ UNCHANGED <<vimView, environ, files, frame, onStop, onPrompt,
                   stopCallbacks, prompt_hook, promptRun>>

\* vim.communicate() returns once the process has exited (line 123), then
\* return True (line 124)
OpenFileCommunicate ==
    /\ last.op = "openFile" /\ last.pc = "communicate"
    /\ last.running = 0
    /\ last' = StepTo(openFileAfter("communicate"))
    /\ UNCHANGED <<vimView, environ, files, frame, onStop, onPrompt,
                   stopCallbacks, prompt_hook, promptRun>>

--------------------------------------------------------------------------
(* Specifications *)

OpenNext ==
    \/ \E f \in Paths, l \in Lines \cup {NoLine}, e \in BOOLEAN, r \in BOOLEAN,
          s \in Spawns : OpenFile(f, l, e, r, s)
    \/ \E p \in Paths : FileChange(p)
    \/ \E v \in {"True", "False"} : SetUseTabs(v)

ConfigNext ==
    \/ \E v \in ServerNames : SetServerName(v)
    \/ \E v \in BinaryNames : SetBinaryName(v)
    \/ \E v \in {"True", "False"} : SetUseTabs(v)
    \/ \E p \in Procs, b \in {"ok", "RuntimeError"} : PutBreak(p, b)

PolicyNext ==
    \/ \E v \in {"True", "False", None} : SetOnStop(v)
    \/ \E v \in {"True", "False", None} : SetOnPrompt(v)
    \/ \E v \in {None} \cup ServerNames : EnvChange(v)
    \/ \E h \in {None} \cup OtherHooks : OtherPromptHook(h)

FollowNext ==
    \/ \E v \in {"True", "False", None} : SetOnStop(v)
    \/ \E v \in {"True", "False", None} : SetOnPrompt(v)
    \/ \E s \in Spawns : StopEvent(s)
    \/ \E s \in Spawns : PromptEvent(s)
    \/ \E s \in Spawns : CmdView(s)
    \/ \E sal \in Sals : FrameChange(sal)
    \/ \E p \in Paths : FileChange(p)

\* configuration between open requests and evaluations
CommandNext ==
    \/ \E v \in ServerNames : SetServerName(v)
    \/ \E v \in BinaryNames : SetBinaryName(v)
    \/ \E v \in {"True", "False"} : SetUseTabs(v)
    \/ \E f \in Paths, l \in Lines \cup {NoLine}, r \in BOOLEAN, s \in Spawns :
          OpenFile(f, l, TRUE, r, s)
    \/ \E p \in Procs, b \in {"ok", "RuntimeError"} : PutBreak(p, b)

\* vbreak with and without a number
BreakNext ==
    \/ \E n \in BreakNumbers, s \in Spawns : ShowBreak(n, s)
    \/ \E p \in Procs, b \in {"ok", "RuntimeError"} : PutBreak(p, b)
    \/ \E p \in Paths : FileChange(p)

\* loading the script again, between policy updates and events
ReloadNext ==
    \/ Reload
    \/ \E v \in {"True", "False", None} : SetOnStop(v)
    \/ \E v \in {"True", "False", None} : SetOnPrompt(v)
    \/ \E s \in Spawns : StopEvent(s)
    \/ \E s \in Spawns : PromptEvent(s)
    \/ \E sal \in {s \in Sals : \/ s.kind = "noframe"
                                \/ s.file = "/src/main.c" /\ s.line = 1} :
          FrameChange(sal)

\* openFile statement by statement, between other commands
StepNext ==
    \/ \E f \in Paths, l \in Lines \cup {NoLine}, e \in BOOLEAN, r \in BOOLEAN :
          OpenFileCall(f, l, e, r)
    \/ OpenFileRecord
    \/ \E s \in Spawns : OpenFilePopen(s)
    \/ ProcessExit
    \/ OpenFileCommunicate
    \/ Idle /\ \E v \in {"True", "False"} : SetUseTabs(v)
    \/ Idle /\ \E p \in Procs, b \in {"ok", "RuntimeError"} : PutBreak(p, b)
    \/ Idle /\ \E v \in {"True", "False", None} : SetOnStop(v)

Next == OpenNext \/ ConfigNext \/ PolicyNext \/ FollowNext \/ CommandNext
          \/ BreakNext \/ ReloadNext \/ StepNext

\* Spec composes everything; the specifications below it each run one group
\* of operations from the same initial states.
Spec == Init /\ [][Next]_vars
SpecOpen == Init /\ [][OpenNext]_vars
SpecConfig == Init /\ [][ConfigNext]_vars
SpecPolicy == Init /\ [][PolicyNext]_vars
SpecFollow == Init /\ [][FollowNext]_vars
SpecCommand == Init /\ [][CommandNext]_vars
SpecBreak == Init /\ [][BreakNext]_vars
SpecReload == Init /\ [][ReloadNext]_vars
SpecSteps == Init /\ [][StepNext]_vars
--------------------------------------------------------------------------
(* Properties of openFile, checked under SpecOpen *)

Launched(rec) == rec.launches # <<>>
IsOpenFile(rec) == rec.op = "openFile"

\* C1: an openFile call with reopen false on an existing regular file
\* launches the external process exactly when its (fileName, lineNo) differs
\* from the recorded (curFile, curLine).  Of two such calls in a row with the
\* same arguments at most one launches and the second returns False; of two
\* in a row for the same file and different lines, the second launches.
C1_DedupGuard ==
    [][ /\ (IsOpenFile(last') /\ ~last'.reopen /\ isfile(last'.fileName))
           => (Launched(last') <=>
                 <<last'.fileName, last'.lineNo>>
                     # <<vimView.curFile, vimView.curLine>>)
        /\ (IsOpenFile(last') /\ last'.again /\ ~last'.reopen
              /\ isfile(last'.fileName))
           => /\ last'.ret = "False"
              /\ Len(last.launches) + Len(last'.launches) <= 1
        /\ (/\ IsOpenFile(last) /\ IsOpenFile(last')
            /\ ~last.reopen /\ ~last'.reopen
            /\ isfile(last'.fileName)
            /\ last.fileName = last'.fileName /\ last.lineNo # last'.lineNo)
           => Len(last'.launches) = 1
      ]_vars

\* The second of two equal calls for line 2 of an existing file was
\* suppressed by the dedup guard
C1_Witness ==
    /\ IsOpenFile(last) /\ last.again /\ ~last.reopen /\ isfile(last.fileName)
    /\ last.lineNo = 2 /\ last.ret = "False" /\ ~Launched(last)
    /\ vimView.curFile = last.fileName /\ vimView.curLine = 2

\* C2 as stated: two forced openFile calls in a row with the same arguments
\* each attempt a launch, whatever was recorded before.
C2_AlwaysTwoLaunches ==
    [][ (IsOpenFile(last') /\ last'.again /\ last'.reopen)
        => (Len(last.launches) = 1 /\ Len(last'.launches) = 1) ]_vars

\* C2 amended: of two forced openFile calls in a row with the same arguments,
\* each attempts exactly one launch when existingOnly is false or the path is
\* an existing regular file, whatever was recorded before, and neither
\* launches otherwise.
C2_ForcedReopen ==
    [][ (IsOpenFile(last') /\ last'.again /\ last'.reopen)
        => IF ~last'.existingOnly \/ isfile(last'.fileName)
           THEN Len(last.launches) = 1 /\ Len(last'.launches) = 1
           ELSE ~Launched(last) /\ ~Launched(last') ]_vars

\* The second of two equal forced calls launched for the location that the
\* first had recorded
C2_Witness ==
    /\ IsOpenFile(last) /\ last.again /\ last.reopen /\ last.existingOnly
    /\ isfile(last.fileName) /\ Len(last.launches) = 1
    /\ last.launches[1][Len(last.launches[1])] = last.fileName
    /\ vimView.curFile = last.fileName /\ vimView.curLine = last.lineNo

\* C3: an openFile call with existingOnly true for a path that is no existing
\* regular file returns False, launches nothing and leaves curFile and
\* curLine as they were, with reopen true or false.
C3_ExistenceGuard ==
    [][ (IsOpenFile(last') /\ last'.existingOnly /\ ~isfile(last'.fileName))
        => /\ last'.ret = "False"
           /\ ~Launched(last')
           /\ last'.raised = None
           /\ vimView'.curFile = vimView.curFile
           /\ vimView'.curLine = vimView.curLine ]_vars

\* A forced call for a missing file was refused
C3_Witness ==
    /\ IsOpenFile(last) /\ last.existingOnly /\ last.reopen
    /\ ~isfile(last.fileName) /\ last.ret = "False" /\ ~Launched(last)
    /\ vimView.curFile # last.fileName
--------------------------------------------------------------------------
(* Properties of the configuration and of vbreak, checked under SpecConfig *)

NonEmpty(name) == name # None /\ name # ""

\* C9: serverName and binaryName are non-empty after construction and after
\* every setCommand call; a call given an empty value for a field keeps that
\* field's previous value; and a call changes only the field it was given
\* (and the command prefix derived from the fields), never curFile/curLine.
C9_ConfigNonEmpty ==
    /\ [](NonEmpty(vimView.serverName) /\ NonEmpty(vimView.binaryName))
    /\ [][ /\ last'.op = "vimview-server"
              => /\ vimView'.serverName =
                       IF NonEmpty(last'.value) THEN last'.value
                       ELSE vimView.serverName
                 /\ vimView'.binaryName = vimView.binaryName
                 /\ vimView'.cmdFileArg = vimView.cmdFileArg
           /\ last'.op = "vimview-command"
              => /\ vimView'.binaryName =
                       IF NonEmpty(last'.value) THEN last'.value
                       ELSE vimView.binaryName
                 /\ vimView'.serverName = vimView.serverName
                 /\ vimView'.cmdFileArg = vimView.cmdFileArg
           /\ last'.op = "vimview-tabs"
              => /\ vimView'.cmdFileArg =
                       IF last'.value = "True" THEN "--remote-tab" ELSE "--remote"
                 /\ vimView'.serverName = vimView.serverName
                 /\ vimView'.binaryName = vimView.binaryName
           /\ last'.op \in {"vimview-server", "vimview-command", "vimview-tabs"}
              => /\ vimView'.curFile = vimView.curFile
                 /\ vimView'.curLine = vimView.curLine
                 /\ vimView'.cmd = <<vimView'.binaryName, "+q", "--servername",
                                     vimView'.serverName>>
         ]_vars

\* An empty server name was set after "vimsrv" had been, and "vimsrv" stayed
C9_Witness ==
    /\ last.op = "vimview-server" /\ last.value = ""
    /\ vimView.serverName = "vimsrv"
    /\ vimView.cmd[4] = "vimsrv"

\* C10: vbreak creates a breakpoint only if execCmd returned an empty error
\* text; when the error text is non-empty no breakpoint is created and
\* 'error: ' followed by that text is written.
C10_BreakpointGated ==
    last.op = "putBreak"
    => /\ last.created # <<>> => (last.err = <<>> /\ last.raised = None)
       /\ last.err # <<>>
          => /\ last.created = <<>>
             /\ last.writes = <<(<<"error: ">> \o last.err)>>

\* vim answered with a location and an error text: no breakpoint was made
C10_Witness ==
    /\ last.op = "putBreak" /\ last.err # <<>> /\ last.created = <<>>
    /\ Len(last.launches) = 1
    /\ last.launches[1][5] = "--remote-expr"
    /\ last.writes # <<>>
--------------------------------------------------------------------------
(* Properties of the follow policies, checked under SpecPolicy *)

\* how many plugin callbacks are registered for each trigger
stopRegistered == stopCallbacks
promptRegistered == IF prompt_hook = PromptFn THEN 1 ELSE 0

IsStopUpdate(rec) == rec.op = "vimview-onstop"
IsPromptUpdate(rec) == rec.op = "vimview-onprompt"

\* C4: after every policy update the stored value is True or False and the
\* trigger has exactly one plugin callback registered when it is True and
\* none when it is False; for on-stop this holds in every state, isHooked
\* mirroring the value.  An update that repeats the previous one (enable
\* after enable, disable after disable) leaves the registration as it was.
C4_HookedMirrorsMode ==
    /\ [](/\ onStop.value \in {"True", "False"}
          /\ stopRegistered = (IF onStop.value = "True" THEN 1 ELSE 0)
          /\ onStop.isHooked = (onStop.value = "True")
          /\ IsPromptUpdate(last)
             => /\ onPrompt.value \in {"True", "False"}
                /\ promptRegistered = (IF onPrompt.value = "True" THEN 1 ELSE 0))
    /\ [][ ((IsStopUpdate(last') \/ IsPromptUpdate(last')) /\ last'.again)
           => /\ stopCallbacks' = stopCallbacks
              /\ prompt_hook' = prompt_hook ]_vars

\* on-stop was enabled twice in a row and eventStop is connected once
C4_Witness ==
    /\ IsStopUpdate(last) /\ last.again /\ last.value = "True"
    /\ onStop.isHooked /\ stopRegistered = 1

\* C5: an update that sets a policy to auto resolves it by the presence of
\* VIMSERVER in the environment: absent, the value becomes False and no
\* plugin callback stays registered for the trigger; present (even empty),
\* the value becomes True and exactly one callback is registered.
C5_AutoResolution ==
    /\ (IsStopUpdate(last) /\ last.value = None)
       => IF environ = None
          THEN onStop.value = "False" /\ stopRegistered = 0
          ELSE onStop.value = "True" /\ stopRegistered = 1
    /\ (IsPromptUpdate(last) /\ last.value = None)
       => IF environ = None
          THEN onPrompt.value = "False" /\ promptRegistered = 0
          ELSE onPrompt.value = "True" /\ promptRegistered = 1

\* on-stop was set to auto with VIMSERVER set to the empty string
C5_Witness ==
    /\ IsStopUpdate(last) /\ last.value = None /\ environ = ""
    /\ onStop.value = "True" /\ stopRegistered = 1

\* C8: an on-prompt update that ends Disabled restores the hook saved when
\* the policy was enabled if prompt is the installed hook, and leaves
\* gdb.prompt_hook alone if prompt is not installed.
C8_PromptHookPreserved ==
    [][ (IsPromptUpdate(last') /\ onPrompt'.value = "False")
        => IF prompt_hook = PromptFn
           THEN prompt_hook' = onPrompt.prevHook
           ELSE prompt_hook' = prompt_hook ]_vars

--------------------------------------------------------------------------
(* Properties of the event handlers, checked under SpecFollow *)

frameLocation == <<frame.file, frame.line>>
sessionLocation == <<vimView.curFile, vimView.curLine>>

\* C6 as stated: every stop event with the frame resolved to (path, line)
\* launches with '+<line>' and the path and records (path, line).
C6_StopAlwaysLaunches ==
    [][ (last'.op = "eventStop" /\ frame.kind = "ok")
        => /\ last'.launches =
                <<vimView.cmd \o <<vimView.cmdFileArg,
                                   "+" \o str(frame.line), frame.file>>>>
           /\ <<vimView'.curFile, vimView'.curLine>> = frameLocation ]_vars

\* C6 amended: a stop event with on-stop Enabled and the frame resolved to
\* (path, line), path an existing regular file, launches the external
\* process once, with the path last and '+<line>' before it unless line is
\* 0, and records (path, line), also when that location was recorded before.
C6_StopLaunches ==
    [][ (last'.op = "eventStop" /\ frame.kind = "ok" /\ isfile(frame.file))
        => /\ onStop.value = "True"
           /\ last'.launches =
                <<vimView.cmd \o <<vimView.cmdFileArg>>
                    \o (IF frame.line = 0 THEN <<>>
                        ELSE <<"+" \o str(frame.line)>>)
                    \o <<frame.file>>>>
           /\ <<vimView'.curFile, vimView'.curLine>> = frameLocation ]_vars

\* a stop event at line 2 launched with +2
C6_Witness ==
    /\ last.op = "eventStop" /\ frame.kind = "ok" /\ frame.line = 2
    /\ Len(last.launches) = 1
    /\ last.launches[1][Len(last.launches[1]) - 1] = "+2"
    /\ last.launches[1][Len(last.launches[1])] = frame.file
    /\ sessionLocation = frameLocation

\* C7: a prompt event launches (once) only if the frame resolves to a
\* location other than the recorded one; the prompt events between two
\* moves of the frame or other requests launch at most once; a prompt event
\* writes nothing.
C7_PromptDedup ==
    /\ [](/\ promptRun <= 1
          /\ last.op = "prompt" => last.writes = <<>>)
    /\ [][ (last'.op = "prompt" /\ Launched(last'))
           => /\ onPrompt.value = "True"
              /\ frame.kind = "ok"
              /\ frameLocation # sessionLocation
              /\ Len(last'.launches) = 1 ]_vars

\* a prompt event was suppressed after an earlier one of the run launched
C7_Witness ==
    /\ last.op = "prompt" /\ ~Launched(last) /\ promptRun = 1
    /\ frame.kind = "ok" /\ sessionLocation = frameLocation
--------------------------------------------------------------------------
(* Properties of the unresolved frame, checked under SpecFollow *)

IsFrameOp(rec) == rec.op \in {"CmdView", "eventStop", "prompt"}

\* the causes for which openCurrentFile finds no location, grouped as the
\* diagnostics group them
FailureClass(kind) ==
    CASE kind = "noframe" -> "no frame selected"
      [] kind = "invalid" -> "frame invalid"
      [] kind \in {"nosymtab", "nofilename"} -> "missing symbol/filename"
      [] OTHER -> "resolved"

FailedSal(kind) == [kind |-> kind, file |-> None, line |-> NoLine]

\* C11: when openCurrentFile finds no location (no frame selected, frame
\* invalid, no symbol table, no filename) it launches nothing and leaves
\* (curFile, curLine) as they were; it writes a diagnostic exactly when
\* showError is true (the vim command; the stop and prompt callbacks pass
\* false), and the diagnostic written differs from the one written for every
\* cause of another class.
C11_UnresolvedFrame ==
    [][ (IsFrameOp(last') /\ frame.kind # "ok")
          => /\ ~Launched(last')
             /\ last'.raised = None
             /\ sessionLocation' = sessionLocation
             /\ (last'.writes # <<>>) <=> (last'.op = "CmdView")
             /\ last'.op = "CmdView"
                  => /\ Len(last'.writes) = 1
                     /\ \A k \in {"noframe", "invalid", "nosymtab", "nofilename"} :
                          FailureClass(k) # FailureClass(frame.kind)
                            => openCurrentFile(vimView, FailedSal(k), TRUE, TRUE,
                                               TRUE, "ok").writes # last'.writes
      ]_vars

C11_Witness ==
    /\ last.op = "CmdView" /\ frame.kind = "invalid"
    /\ last.writes = <<(<<"this is not a valid frame\n">>)>>
    /\ ~Launched(last)
--------------------------------------------------------------------------
(* Properties of openFile's statements, checked under SpecSteps *)

\* the openFile call in progress has passed its guards and not returned
PastGuards(rec) == IsOpenFile(rec) /\ rec.pc # "done"

\* the step executes Popen for the call in progress
PopenStep == PastGuards(last) /\ ~Launched(last) /\ Launched(last')

\* C12: in every openFile call that passes the dedup and existence guards,
\* (curFile, curLine) already equals the call's (fileName, lineNo) when
\* Popen is executed, whether Popen succeeds or raises; the two fields
\* change in one step, to the arguments of the call in progress; and no
\* other step changes them: not a guarded-out call, not a parameter update,
\* not an execCmd evaluation.
C12_RecordBeforeLaunch ==
    [][ /\ PopenStep
           => sessionLocation = <<last.fileName, last.lineNo>>
        /\ sessionLocation' # sessionLocation
           => /\ PastGuards(last)
              /\ ~Launched(last)
              /\ sessionLocation' = <<last.fileName, last.lineNo>>
        /\ (IsOpenFile(last') /\ last'.ret = "True")
           => /\ Launched(last')
              /\ sessionLocation' = <<last'.fileName, last'.lineNo>>
      ]_vars

C12_Witness ==
    /\ PastGuards(last) /\ ~Launched(last)
    /\ last.fileName = "/src/main.c" /\ last.lineNo = 2 /\ last.reopen
    /\ sessionLocation = <<last.fileName, last.lineNo>>
    /\ vimView.cmdFileArg = "--remote-tab"
    /\ onStop.isHooked

\* C13: openFile returns True without waiting for the process it launched:
\* whenever a call has started its process and that process is still
\* running, the call is able to return, so that a later call could launch a
\* second process next to the first.
C13_FireAndForget ==
    (PastGuards(last) /\ Launched(last) /\ last.running > 0)
        => ENABLED OpenFileCommunicate
--------------------------------------------------------------------------
(* Properties of the cached auto mode, checked under SpecPolicy *)

Resolved(env) == IF env # None THEN "True" ELSE "False"

\* C14: auto is resolved when the policy is set and the result is stored:
\* after an update with auto the stored value is True or False, the one the
\* environment gives at the moment of that update, also when auto is set
\* again after the environment changed; a step that is not an update of the
\* policy, a change of VIMSERVER in particular, changes neither the stored
\* value nor the registration of the callback.
C14_AutoCached ==
    /\ [](/\ onStop.value # None
          /\ IsPromptUpdate(last) => onPrompt.value # None)
    /\ [][ /\ (IsStopUpdate(last') /\ last'.value = None)
              => /\ onStop'.value = Resolved(environ)
                 /\ stopCallbacks' = (IF environ # None THEN 1 ELSE 0)
           /\ (IsPromptUpdate(last') /\ last'.value = None)
              => onPrompt'.value = Resolved(environ)
           /\ ~IsStopUpdate(last')
              => onStop' = onStop /\ stopCallbacks' = stopCallbacks
           /\ ~IsPromptUpdate(last')
              => onPrompt' = onPrompt
           /\ last'.op = "environ"
              => /\ environ' # environ
                 /\ prompt_hook' = prompt_hook
         ]_vars

\* VIMSERVER has just been unset and both policies are still on, their
\* callbacks registered
C14_Witness ==
    /\ last.op = "environ" /\ environ = None
    /\ onStop.value = "True" /\ stopRegistered = 1
    /\ onPrompt.value = "True" /\ promptRegistered = 1
--------------------------------------------------------------------------
(* Properties of the argument list, checked under SpecOpen *)

Directive(n) == "+" \o str(n)

\* the argument before the last one
BeforePath(argv) == argv[Len(argv) - 1]

NoDirective(argv) == \A i \in 5..Len(argv) : argv[i] \notin {Directive(n) : n \in Lines}

\* C15 as stated: every openFile launch made with a line, 0 included, has
\* '+<line>' immediately before the path, and every launch made without a
\* line has no directive.
C15_DirectiveForAnyLine ==
    (IsOpenFile(last) /\ Launched(last))
    => /\ Len(last.launches) = 1
       /\ last.launches[1][Len(last.launches[1])] = last.fileName
       /\ IF last.lineNo # NoLine
          THEN BeforePath(last.launches[1]) = Directive(last.lineNo)
          ELSE NoDirective(last.launches[1])

\* C15 amended: every openFile launch made with a line other than 0 has
\* '+<line>' immediately before the path, which is the last argument; every
\* launch made with no line or with line 0 has no directive, the mode flag
\* standing before the path.
C15_LineDirective ==
    (IsOpenFile(last) /\ Launched(last))
    => /\ Len(last.launches) = 1
       /\ last.launches[1][Len(last.launches[1])] = last.fileName
       /\ IF last.lineNo # NoLine /\ last.lineNo # 0
          THEN BeforePath(last.launches[1]) = Directive(last.lineNo)
          ELSE /\ NoDirective(last.launches[1])
               /\ BeforePath(last.launches[1]) = vimView.cmdFileArg

\* a launch for line 0, made without a directive
C15_Witness ==
    /\ IsOpenFile(last) /\ Launched(last) /\ last.lineNo = 0
    /\ last.launches[1] = <<"vim", "+q", "--servername", "gdb", "--remote",
                            "/src/main.c">>
--------------------------------------------------------------------------
(* Properties of the launched command, checked under SpecCommand *)

ModeFlag(useTabs) == IF useTabs = "True" THEN "--remote-tab" ELSE "--remote"

\* C16: the argument list of every openFile and execCmd launch starts with
\* [binaryName, '+q', '--servername', serverName] for the names current at
\* the launch, whatever setCommand calls came before; after it an openFile
\* launch has the flag of the most recent vimview-tabs update ('--remote' if
\* there was none) and an execCmd launch has '--remote-expr'.  Only a
\* vimview-tabs update changes the flag.
C16_CommandIdentity ==
    /\ [](/\ \A i \in 1..Len(last.launches) :
               /\ SubSeq(last.launches[i], 1, 4) =
                     <<vimView.binaryName, "+q", "--servername",
                       vimView.serverName>>
               /\ last.launches[i][5] =
                     IF IsOpenFile(last) THEN vimView.cmdFileArg
                     ELSE "--remote-expr"
          /\ last.op = "load" => vimView.cmdFileArg = ModeFlag("False")
          /\ last.op = "vimview-tabs"
             => vimView.cmdFileArg = ModeFlag(last.value))
    /\ [][ last'.op # "vimview-tabs"
           => vimView'.cmdFileArg = vimView.cmdFileArg ]_vars

\* an open request launched after the executable, the server name and the
\* open mode had all been changed
C16_Witness ==
    /\ IsOpenFile(last) /\ last.raised = None
    /\ last.launches = <<(<<"gvim", "+q", "--servername", "vimsrv",
                           "--remote-tab", "+1", "/src/main.c">>)>>
--------------------------------------------------------------------------
(* Properties of vbreak with a number, checked under SpecBreak *)

\* the location is a path, a colon and a decimal line number
SplitsIntoPathLine(b) ==
    /\ b.hasLocation
    /\ \E i \in 1..(Len(b.location) - 1) :
         /\ b.location[i] = ":"
         /\ \A j \in (i + 1)..Len(b.location) : b.location[j] \in Digits

\* C17: showing a breakpoint whose location does not split into path:line
\* (no colon, a non-numeric part after the last colon, no location at all)
\* makes a forced open request for the whole location as the file, with no
\* line, and no exception of the parse leaves the command; a number that
\* matches no breakpoint writes 'no breakpoint number <n>' and launches
\* nothing.
C17_ParseDegradation ==
    last.op = "showBreak"
    => LET found == {b \in GdbBreakpoints : str(b.number) = last.value}
       IN  IF found = {}
           THEN /\ last.writes = <<(<<"no breakpoint number ", last.value, "\n">>)>>
                /\ ~Launched(last)
                /\ last.raised = None
           ELSE \A b \in found :
                  ~SplitsIntoPathLine(b)
                  => /\ last.raised \in {None, "OSError"}
                     /\ last.reopen
                     /\ last.lineNo = NoLine
                     /\ b.hasLocation => last.fileName = join(b.location)

\* the step is an openFile call or a putBreak evaluation whose Popen fails
LaunchFails ==
    \/ \E f \in Paths, l \in Lines \cup {NoLine}, r \in BOOLEAN :
         OpenFile(f, l, TRUE, r, "OSError") /\ Launched(last')
    \/ \E p \in Procs, b \in {"ok", "RuntimeError"} :
         p.spawn = "OSError" /\ PutBreak(p, b)

\* C18: when Popen fails in openFile or execCmd, the failure is written to
\* gdb's output, the call launches no second time, and no exception leaves
\* the command that made the call.
C18_LaunchFailureReported ==
    [][ LaunchFails
        => /\ last'.writes # <<>>
           /\ Len(last'.launches) = 1
           /\ last'.raised = None ]_vars
--------------------------------------------------------------------------
(* Properties of a stop event and the prompt events after it, checked      *)
(* under SpecFollow *)

\* C19: a stop event with the frame at an existing file location L, and any
\* number of prompt events following it with nothing in between, make
\* exactly one launch in total, the stop event's: the stop event records L
\* and each of the prompt events finds L recorded and launches nothing.
C19_StopThenPrompts ==
    /\ [](last.afterStop
          => /\ last.op \in {"eventStop", "prompt"}
             /\ last.stopRun = 1
             /\ sessionLocation = frameLocation
             /\ last.op = "prompt" => ~Launched(last))
    /\ [][ /\ (last'.op = "eventStop" /\ onPrompt.value = "True"
                 /\ frame.kind = "ok" /\ isfile(frame.file))
              => last'.afterStop
           /\ (last'.op = "prompt" /\ last.op \in {"eventStop", "prompt"})
              => last'.afterStop = last.afterStop ]_vars

\* a prompt event after a stop event at line 2, both policies on
C19_Witness ==
    /\ last.op = "prompt" /\ last.afterStop /\ last.stopRun = 1
    /\ onStop.value = "True" /\ onPrompt.value = "True"
    /\ frame.kind = "ok" /\ frame.line = 2
    /\ sessionLocation = frameLocation
--------------------------------------------------------------------------
(* Properties of loading the script again, checked under SpecReload *)

\* the plugin's prompt function, of this load or an earlier one, is the
\* installed hook
pluginPromptRegistered ==
    IF prompt_hook \in {PromptFn, StalePrompt} THEN 1 ELSE 0

\* C20: whatever the policies were when the script was loaded again and
\* whatever updates follow, each trigger has at most one plugin callback
\* connected, and has one only while the policy's value, as the parameter
\* shows it, is True; so a stop event calls openCurrentFile at most once and
\* launches at most once.
C20_ReloadSafe ==
    /\ stopRegistered <= 1
    /\ stopRegistered = 1 => onStop.value = "True"
    /\ pluginPromptRegistered = 1 => onPrompt.value = "True"
    /\ last.op = "eventStop" => Len(last.launches) <= 1
====
